---------------------------- MODULE Spec2Model ----------------------------
(***************************************************************************)
(* Model of src/src/layers/mod.rs: the Layer trait, the LayerJson record   *)
(* union, the NNJson network record, the conversions between them, and     *)
(* NeuralNetwork::{new, add_layer, apply}.                                 *)
(*                                                                         *)
(* The concrete layers (conv, maxpool, fully_connected, relu, flatten,     *)
(* normalize) are declared by `pub mod` at lines 6-11 but their files are  *)
(* not part of the source tree at hand; their constructors and trait       *)
(* methods are modelled from the design document and are marked so.        *)
(*                                                                         *)
(* Tensors are abstract: a parameter tensor (kernel, weights, biases) is   *)
(* an integer naming its contents, two parameters being numerically        *)
(* identical iff the integers are equal.  An activation tensor is a term   *)
(* [src, ops]: the input it started from and the layers applied to it so   *)
(* far, i.e. Layer::apply is an uninterpreted pure function of the layer   *)
(* (its parameters included) and of its input.                             *)
(***************************************************************************)
EXTENDS Integers, Sequences, FiniteSets, TLC

\* Longest layer sequence explored.
MaxLayers == 2

\* The one rank NeuralNetwork::apply accepts (`if dim == 3`).
SupportedRank == 3

\* Parameter values and inputs the model draws from.
Kernels == {1, 2}
Windows == {2, 3}
WeightVals == {0, 1}
BiasVals == {0, 1}
Inputs == {1, 2}
Dims == {SupportedRank - 1, SupportedRank, SupportedRank + 1}

\* Option<T> and Result<T, ()>.
None == [some |-> FALSE]
Some(x) == [some |-> TRUE, val |-> x]
Err == [ok |-> FALSE]
Ok(x) == [ok |-> TRUE, val |-> x]

---------------------------------------------------------------------------
(* The concrete layers: constructors.                                      *)

ConvolutionNew(kernel) == [kind |-> "Convolution", kernel |-> kernel]
MaxPoolNew(window) == [kind |-> "MaxPool", window |-> window]
\* FullyConnected::new() takes no argument: whatever parameters the layer
\* holds, they cannot depend on a record; 0 names the default parameters.
FullyConnectedNew == [kind |-> "FullyConnected", weights |-> 0, biases |-> 0]
\* A fully-connected layer built directly by a caller from its parameters.
FullyConnectedWith(weights, biases) ==
    [kind |-> "FullyConnected", weights |-> weights, biases |-> biases]
FlattenNew == [kind |-> "Flatten"]
ReluNew == [kind |-> "Relu"]
NormalizeNew == [kind |-> "Normalize"]

\* Every live layer a caller can hand to add_layer.
LayerSet ==
    {ConvolutionNew(k) : k \in Kernels}
    \cup {MaxPoolNew(w) : w \in Windows}
    \cup {FullyConnectedWith(w, b) : w \in WeightVals, b \in BiasVals}
    \cup {FlattenNew, ReluNew, NormalizeNew}

---------------------------------------------------------------------------
(* trait Layer (lines 13-29): the methods of the concrete layers.          *)

\* fn apply(&self, input) -> ArrayD<f32>: a new tensor, input untouched.
LayerApply(layer, input) == [input EXCEPT !.ops = Append(@, layer)]

Name(layer) == layer.kind

NumParams(layer) ==
    CASE layer.kind = "Convolution" -> 9 * layer.kernel
      [] layer.kind = "FullyConnected" -> 8
      [] OTHER -> 0

NumMuls(layer) ==
    CASE layer.kind = "Convolution" -> 36
      [] layer.kind = "FullyConnected" -> 6
      [] layer.kind = "Normalize" -> 1
      [] OTHER -> 0

InputShape(layer) ==
    CASE layer.kind = "FullyConnected" -> <<3>>
      [] OTHER -> <<1, 6, 6>>

OutputShape(layer) ==
    CASE layer.kind = "Convolution" -> <<1, 6, 6>>
      [] layer.kind = "MaxPool" -> <<1, 6 \div layer.window, 6 \div layer.window>>
      [] layer.kind = "FullyConnected" -> <<2>>
      [] layer.kind = "Flatten" -> <<36>>
      [] OTHER -> <<1, 6, 6>>

\* impl Display for Box<dyn Layer> (lines 31-43): the row's fields in the
\* order of the write! arguments.
Display(layer) ==
    <<Name(layer), OutputShape(layer), "", NumParams(layer), NumMuls(layer)>>

---------------------------------------------------------------------------
(* Layer -> LayerJson: `trait Layer: Into<LayerJson>` (line 13).  The      *)
(* serde attributes (tag = "type", rename_all = "snake_case") name the     *)
(* variants of the record.                                                 *)

\* impl Into<LayerJson> for conv::Convolution (lines 76-82).
ConvolutionInto(self) == [type |-> "convolution", kernel |-> self.kernel]
\* The other layers' conversions live in their own files.
MaxPoolInto(self) == [type |-> "max_pool", window |-> self.window]
FullyConnectedInto(self) ==
    [type |-> "fully_connected", weights |-> self.weights, biases |-> self.biases]
ReluInto(self) == [type |-> "relu"]
FlattenInto(self) == [type |-> "flatten"]
NormalizeInto(self) == [type |-> "normalize"]

\* l.into() on a Box<dyn Layer>: dispatch on the concrete layer.
LayerInto(l) ==
    CASE l.kind = "Convolution" -> ConvolutionInto(l)
      [] l.kind = "MaxPool" -> MaxPoolInto(l)
      [] l.kind = "FullyConnected" -> FullyConnectedInto(l)
      [] l.kind = "Relu" -> ReluInto(l)
      [] l.kind = "Flatten" -> FlattenInto(l)
      [] l.kind = "Normalize" -> NormalizeInto(l)

\* enum LayerJson (lines 56-73): every value of the record type, over the
\* parameter values of the model.
LayerJson ==
    {[type |-> "convolution", kernel |-> k] : k \in Kernels}
    \cup {[type |-> "max_pool", window |-> w] : w \in Windows}
    \cup {[type |-> "fully_connected", weights |-> w, biases |-> b] :
              w \in WeightVals, b \in BiasVals}
    \cup {[type |-> "relu"], [type |-> "flatten"], [type |-> "normalize"]}

\* The match of a mutated factory whose last arm is refused.
TryFromLayerJsonNoNormalize(value) ==
    CASE value.type = "convolution" -> Ok(ConvolutionNew(value.kernel))
      [] value.type = "max_pool" -> Ok(MaxPoolNew(value.window))
      [] value.type = "fully_connected" -> Ok(FullyConnectedNew)
      [] value.type = "flatten" -> Ok(FlattenNew)
      [] value.type = "relu" -> Ok(ReluNew)
      [] OTHER -> Err

\* impl TryFrom<LayerJson> for Box<dyn Layer> (lines 90-105).  The
\* FullyConnected arm binds weights and biases and does not use them.
TryFromLayerJson(value) ==
    Ok(CASE value.type = "convolution" -> ConvolutionNew(value.kernel)
         [] value.type = "max_pool" -> MaxPoolNew(value.window)
         [] value.type = "fully_connected" -> FullyConnectedNew
         [] value.type = "flatten" -> FlattenNew
         [] value.type = "relu" -> ReluNew
         [] value.type = "normalize" -> NormalizeNew)

---------------------------------------------------------------------------
(* NNJson and its conversions (lines 84-127).  The struct declares         *)
(* `layers: Vec<Layers>`, but both conversions are typed by the entry      *)
(* conversions above (Into<LayerJson>, TryFrom<LayerJson>), so the entries *)
(* the conversions produce and consume are LayerJson values.               *)

\* impl From<NeuralNetwork> for NNJson (lines 107-113).
FromNeuralNetwork(network) ==
    [layers |-> [i \in 1..Len(network.layers) |-> LayerInto(network.layers[i])]]

\* .collect::<Result<Vec<_>, _>>(): the values in order, or the first Err.
RECURSIVE Collect(_)
Collect(results) ==
    IF results = <<>> THEN Ok(<<>>)
    ELSE IF ~Head(results).ok THEN Err
    ELSE LET rest == Collect(Tail(results))
         IN  IF rest.ok THEN Ok(<<Head(results).val>> \o rest.val) ELSE Err

\* A mutated reconstruction that loses the last entry.
TryFromNNJsonDropLast(value) ==
    LET n == Len(value.layers)
        c == Collect([i \in 1..n |-> TryFromLayerJson(value.layers[i])])
    IN  IF c.ok THEN Ok([layers |-> SubSeq(c.val, 1, n - 1)]) ELSE Err

\* impl TryFrom<NNJson> for NeuralNetwork (lines 115-127): `?` returns the
\* Err before any NeuralNetwork is built.
TryFromNNJson(value) ==
    LET c == Collect([i \in 1..Len(value.layers) |->
                         TryFromLayerJson(value.layers[i])])
    IN  IF c.ok THEN Ok([layers |-> c.val]) ELSE Err

---------------------------------------------------------------------------
(* NeuralNetwork (lines 139-166).                                          *)

\* pub fn new() (lines 144-146).
NeuralNetworkNew == [layers |-> <<>>]

\* A mutated add_layer that refuses a layer whose input shape differs from
\* the previous layer's output shape.
AddLayerValidating(self, layer) ==
    IF self.layers # <<>>
       /\ OutputShape(self.layers[Len(self.layers)]) # InputShape(layer)
    THEN self
    ELSE [self EXCEPT !.layers = Append(@, layer)]

\* pub fn add_layer(&mut self, layer) (lines 148-150).
AddLayerTo(self, layer) == [self EXCEPT !.layers = Append(@, layer)]

\* A mutated gate that lets higher ranks through.
RankSupportedAtLeast(d) == d >= SupportedRank

\* `if dim == 3` (line 153).
RankSupported(d) == d = SupportedRank

\* The caller's input tensor number i.
InputTensor(i) == [src |-> i, ops |-> <<>>]

---------------------------------------------------------------------------
(* State.                                                                  *)
(*   nn       the NeuralNetwork under construction and use                 *)
(*   added    the arguments of the add_layer calls so far, in call order   *)
(*   json     the NNJson last produced from nn, or NoJson                  *)
(*   origin   the network json was produced from                           *)
(*   rebuilt  the outcome of converting json back, or NotRebuilt           *)
(*   pc       where the running apply call stands: "idle" (no call),       *)
(*            "loop" (head of the for loop), "print" (between layer.apply  *)
(*            and println!), "ret" (returned to the caller)                *)
(*   input, dim      the arguments of the running apply call               *)
(*   output   apply's working tensor                                       *)
(*   idx      position of the for loop in self.layers                      *)
(*   applied  positions of the layers whose apply this call has invoked    *)
(*   printed  the rows this call has written, in order                     *)
(*   result   the value the call returned                                  *)
(*   prev     arguments and result of the previous completed call on the   *)
(*            same network, or NoCall                                      *)

VARIABLES nn, added, json, origin, rebuilt,
          pc, input, dim, output, idx, applied, printed, result, prev

netVars == <<nn, added>>
jsonVars == <<json, origin, rebuilt>>
callVars == <<pc, input, dim, output, idx, applied, printed, result>>
vars == <<nn, added, json, origin, rebuilt,
          pc, input, dim, output, idx, applied, printed, result, prev>>

NoJson == [layers |-> <<[type |-> "none"]>>]
NotRebuilt == [ok |-> FALSE, pending |-> TRUE]
NoCall == [input |-> InputTensor(0), dim |-> 0, result |-> None]

Init ==
    /\ nn = NeuralNetworkNew
    /\ added = <<>>
    /\ json = NoJson
    /\ origin = NeuralNetworkNew
    /\ rebuilt = NotRebuilt
    /\ pc = "idle"
    /\ input = InputTensor(0)
    /\ dim = 0
    /\ output = InputTensor(0)
    /\ idx = 0
    /\ applied = <<>>
    /\ printed = <<>>
    /\ result = None
    /\ prev = NoCall

\* nn.add_layer(layer): needs &mut self, so no apply call is running.
AddLayer(layer) ==
    /\ pc = "idle"
    /\ Len(added) < MaxLayers
    /\ nn' = AddLayerTo(nn, layer)
    /\ added' = Append(added, layer)
    /\ prev' = NoCall
    /\ UNCHANGED <<jsonVars, callVars>>

\* NNJson::from(nn), as serde's `into = "NNJson"` does when serializing.
ToJson ==
    /\ pc = "idle"
    /\ json' = FromNeuralNetwork(nn)
    /\ origin' = nn
    /\ rebuilt' = NotRebuilt
    /\ UNCHANGED <<netVars, callVars, prev>>

\* NeuralNetwork::try_from(json), as serde's `try_from = "NNJson"` does.
FromJson ==
    /\ pc = "idle"
    /\ json # NoJson
    /\ rebuilt = NotRebuilt
    /\ rebuilt' = TryFromNNJson(json)
    /\ UNCHANGED <<netVars, json, origin, callVars, prev>>

\* nn.apply(&input, d) is entered (lines 152-154, 162-164): the rank test,
\* then either the copy of the input or the return of None.
ApplyCall(i, d) ==
    /\ pc = "idle"
    /\ input' = InputTensor(i)
    /\ dim' = d
    /\ applied' = <<>>
    /\ printed' = <<>>
    /\ idx' = 1
    /\ IF RankSupported(d)
       THEN /\ output' = InputTensor(i)
            /\ pc' = "loop"
            /\ result' = None
       ELSE /\ output' = InputTensor(0)
            /\ pc' = "ret"
            /\ result' = None
    /\ UNCHANGED <<netVars, jsonVars, prev>>

\* A mutated loop body that feeds every layer the caller's input.
ApplyLayerOnInput ==
    /\ pc = "loop"
    /\ idx <= Len(nn.layers)
    /\ output' = LayerApply(nn.layers[idx], input)
    /\ applied' = Append(applied, idx)
    /\ pc' = "print"
    /\ UNCHANGED <<netVars, jsonVars, input, dim, idx, printed, result, prev>>

\* A mutated loop body that works in the caller's buffer instead of a copy.
ApplyLayerInPlace ==
    /\ pc = "loop"
    /\ idx <= Len(nn.layers)
    /\ output' = LayerApply(nn.layers[idx], output)
    /\ input' = output'
    /\ applied' = Append(applied, idx)
    /\ pc' = "print"
    /\ UNCHANGED <<netVars, jsonVars, dim, idx, printed, result, prev>>

\* output = layer.apply(&output.view()) (line 158).
ApplyLayer ==
    /\ pc = "loop"
    /\ idx <= Len(nn.layers)
    /\ output' = LayerApply(nn.layers[idx], output)
    /\ applied' = Append(applied, idx)
    /\ pc' = "print"
    /\ UNCHANGED <<netVars, jsonVars, input, dim, idx, printed, result, prev>>

\* A mutated loop body that prints only the layers that multiply.
PrintLayerIfMuls ==
    /\ pc = "print"
    /\ printed' = IF NumMuls(nn.layers[idx]) > 0
                  THEN Append(printed, Display(nn.layers[idx]))
                  ELSE printed
    /\ idx' = idx + 1
    /\ pc' = "loop"
    /\ UNCHANGED <<netVars, jsonVars, input, dim, output, applied, result, prev>>

\* println!("{}", layer) (line 159), then the loop advances.
PrintLayer ==
    /\ pc = "print"
    /\ printed' = Append(printed, Display(nn.layers[idx]))
    /\ idx' = idx + 1
    /\ pc' = "loop"
    /\ UNCHANGED <<netVars, jsonVars, input, dim, output, applied, result, prev>>

\* Some(output) (line 161), once the loop has run through self.layers.
ApplyReturn ==
    /\ pc = "loop"
    /\ idx > Len(nn.layers)
    /\ result' = Some(output)
    /\ pc' = "ret"
    /\ UNCHANGED <<netVars, jsonVars, input, dim, output, idx, applied, printed, prev>>

\* The caller takes the result; the borrow of nn ends.
CallerResumes ==
    /\ pc = "ret"
    /\ prev' = [input |-> input, dim |-> dim, result |-> result]
    /\ pc' = "idle"
    /\ UNCHANGED <<netVars, jsonVars, input, dim, output, idx, applied, printed, result>>

Next ==
    \/ \E layer \in LayerSet : AddLayer(layer)
    \/ ToJson
    \/ FromJson
    \/ \E i \in Inputs, d \in Dims : ApplyCall(i, d)
    \/ ApplyLayer
    \/ PrintLayer
    \/ ApplyReturn
    \/ CallerResumes

Spec == Init /\ [][Next]_vars

---------------------------------------------------------------------------
(* Helpers of the properties.                                              *)

\* Ln.apply(... L2.apply(L1.apply(x)) ...).
RECURSIVE Compose(_, _)
Compose(ls, x) ==
    IF ls = <<>> THEN x ELSE Compose(Tail(ls), LayerApply(Head(ls), x))

RECURSIVE SumPrintedMuls(_)
SumPrintedMuls(rows) ==
    IF rows = <<>> THEN 0 ELSE Head(rows)[5] + SumPrintedMuls(Tail(rows))

RECURSIVE SumLayerMuls(_)
SumLayerMuls(ls) ==
    IF ls = <<>> THEN 0 ELSE NumMuls(Head(ls)) + SumLayerMuls(Tail(ls))

\* The layer has the record's variant and the record's payload.
BuiltFrom(layer, record) ==
    CASE record.type = "convolution" ->
             layer.kind = "Convolution" /\ layer.kernel = record.kernel
      [] record.type = "max_pool" ->
             layer.kind = "MaxPool" /\ layer.window = record.window
      [] record.type = "fully_connected" ->
             /\ layer.kind = "FullyConnected"
             /\ layer.weights = record.weights
             /\ layer.biases = record.biases
      [] record.type = "relu" -> layer.kind = "Relu"
      [] record.type = "flatten" -> layer.kind = "Flatten"
      [] record.type = "normalize" -> layer.kind = "Normalize"

\* Some adjacent pair of the network disagrees on its shapes, at position i.
MismatchAt(i) ==
    /\ i \in 1..(Len(nn.layers) - 1)
    /\ OutputShape(nn.layers[i]) # InputShape(nn.layers[i + 1])

---------------------------------------------------------------------------
(* Properties.                                                             *)

\* C1 (rank gating): an apply call whose rank argument is not 3 returns
\* None at once: it never enters the loop, invokes no layer's apply and
\* writes no row.
C1_RankGating ==
    (pc # "idle" /\ dim # SupportedRank) =>
        /\ pc = "ret"
        /\ result = None
        /\ applied = <<>>
        /\ printed = <<>>

C1_Witness ==
    /\ pc = "ret"
    /\ dim = SupportedRank + 1
    /\ Len(nn.layers) >= 1
    /\ result = None

\* C2 (sequential composition): an apply call with rank 3 returns Some of
\* the layers composed in stored order on the input (the input itself for an
\* empty network), having invoked each layer's apply once, in stored order.
C2_SequentialComposition ==
    (pc = "ret" /\ dim = SupportedRank) =>
        /\ result = Some(Compose(nn.layers, input))
        /\ applied = [i \in 1..Len(nn.layers) |-> i]

C2_Witness ==
    /\ pc = "ret"
    /\ dim = SupportedRank
    /\ Len(nn.layers) = 2
    /\ nn.layers[1] # nn.layers[2]
    /\ result.some

\* C3 (round trip): the network rebuilt from the record of a network has
\* the same layers as that network: same count, same kinds in the same
\* order, same parameters.
C3_RoundTrip ==
    rebuilt # NotRebuilt =>
        /\ rebuilt.ok
        /\ rebuilt.val.layers = origin.layers

\* C4 (LayerFactory.build): every layer of the rebuilt network has the
\* variant of its record and is built from the record's payload.
C4_BuildUsesPayload ==
    (rebuilt # NotRebuilt /\ rebuilt.ok) =>
        \A i \in 1..Len(json.layers) :
            /\ i <= Len(rebuilt.val.layers)
            /\ BuiltFrom(rebuilt.val.layers[i], json.layers[i])

\* C5 (fail-fast reconstruction): the reconstruction fails iff some entry's
\* conversion fails, and then carries no network; otherwise the network
\* holds the converted entries, one per entry, in record order.
C5_FailFast ==
    rebuilt # NotRebuilt =>
        /\ rebuilt.ok <=>
               \A i \in 1..Len(json.layers) : TryFromLayerJson(json.layers[i]).ok
        /\ ~rebuilt.ok => rebuilt = Err
        /\ rebuilt.ok =>
               /\ Len(rebuilt.val.layers) = Len(json.layers)
               /\ \A i \in 1..Len(json.layers) :
                      Ok(rebuilt.val.layers[i]) = TryFromLayerJson(json.layers[i])

C5_Witness ==
    /\ rebuilt # NotRebuilt
    /\ rebuilt.ok
    /\ Len(json.layers) = 2
    /\ json.layers[1].type # json.layers[2].type

\* C6 (cost additivity): during a call each row is written after the apply
\* of its layer and before the next layer's, it carries that layer's name
\* and num_muls, and a returned rank-3 call has written one row per stored
\* layer, so the rows' num_muls add up to the layers' num_muls.
C6_CostAdditivity ==
    /\ Len(applied) = Len(printed) + (IF pc = "print" THEN 1 ELSE 0)
    /\ pc # "idle" =>
           \A k \in 1..Len(printed) :
               /\ applied[k] = k
               /\ printed[k][1] = Name(nn.layers[k])
               /\ printed[k][5] = NumMuls(nn.layers[k])
    /\ (pc = "ret" /\ dim = SupportedRank) =>
           /\ Len(printed) = Len(nn.layers)
           /\ SumPrintedMuls(printed) = SumLayerMuls(nn.layers)

C6_Witness ==
    /\ pc = "ret"
    /\ dim = SupportedRank
    /\ Len(printed) = 2
    /\ printed[1][5] > 0
    /\ printed[2][5] = 0

\* C7 (shape propagation): a rank-3 apply call on a network with an adjacent
\* pair whose shapes disagree returns a failure and does not invoke the
\* second layer's apply.
C7_ShapePropagation ==
    (pc = "ret" /\ dim = SupportedRank) =>
        \A i \in 1..Len(nn.layers) :
            MismatchAt(i) =>
                /\ ~result.some
                /\ \A k \in 1..Len(applied) : applied[k] # i + 1

\* C8 (construction): the network starts empty; every add_layer call grows
\* the sequence by exactly one, puts its argument last and leaves the layers
\* before it as they were, whatever the shapes; nothing else changes the
\* network.
C8_Construction ==
    /\ nn.layers = <<>>
    /\ [][/\ added' # added =>
                /\ Len(nn'.layers) = Len(nn.layers) + 1
                /\ nn'.layers[Len(nn'.layers)] = added'[Len(added')]
                /\ SubSeq(nn'.layers, 1, Len(nn.layers)) = nn.layers
                /\ nn'.layers = added'
          /\ added' = added => nn' = nn]_vars

C8_Witness ==
    /\ Len(nn.layers) = 2
    /\ nn.layers = added
    /\ OutputShape(nn.layers[1]) # InputShape(nn.layers[2])

C10_ConversionTotal ==
    /\ \A value \in LayerJson : TryFromLayerJson(value).ok
    /\ json # NoJson =>
           \A i \in 1..Len(json.layers) :
               /\ json.layers[i] \in LayerJson
               /\ TryFromLayerJson(json.layers[i]).ok
    /\ rebuilt # NotRebuilt => rebuilt.ok

C10_Witness ==
    /\ rebuilt # NotRebuilt
    /\ rebuilt.ok
    /\ Len(json.layers) = 2
    /\ json.layers[1].type = "normalize"
    /\ json.layers[2].type = "fully_connected"

=============================================================================
